---------------------------- MODULE Spec2Model ----------------------------
(***************************************************************************)
(* Model of .ralph/serve.py, the HTTP bridge of the Ralph Deluxe operator  *)
(* dashboard: atomic_write, enqueue_command, update_settings and the POST  *)
(* handlers of RalphHandler.                                               *)
(*                                                                         *)
(* Text (file contents, request bodies, setting names and values) is a     *)
(* sequence of one-character strings.  json.loads, json.dumps(indent=2),   *)
(* str() and the two regular expressions of update_settings are modelled   *)
(* character by character.                                                 *)
(***************************************************************************)
EXTENDS Integers, Sequences, FiniteSets, TLC

(***************************************************************************)
(* Text helpers                                                            *)
(***************************************************************************)

\* A string literal as a sequence of one-character strings.
Chars(s) == [i \in 1..Len(s) |-> SubSeq(s, i, i)]

\* txt has the characters of pre at positions i .. i+Len(pre)-1.
HasPrefixAt(txt, i, pre) ==
    /\ i >= 1
    /\ i + Len(pre) - 1 <= Len(txt)
    /\ \A k \in 1..Len(pre) : txt[i + k - 1] = pre[k]

Digits == <<"0", "1", "2", "3", "4", "5", "6", "7", "8", "9">>

DigitChars == {Digits[d] : d \in 1..10}

DigitVal(c) == (CHOOSE d \in 1..10 : Digits[d] = c) - 1

RECURSIVE NatText(_)
\* Decimal digits of a natural number.
NatText(n) == IF n < 10 THEN <<Digits[n + 1]>>
              ELSE NatText(n \div 10) \o <<Digits[(n % 10) + 1]>>

\* Decimal text of an integer, as Python's repr(int) and json's int encoder.
IntText(n) == IF n < 0 THEN <<"-">> \o NatText(-n) ELSE NatText(n)

(***************************************************************************)
(* JSON values: what json.loads returns and json.dumps accepts.  A Python  *)
(* dict is an ordered sequence of members with distinct keys.              *)
(***************************************************************************)

JNull == [t |-> "null"]

JBool(b) == [t |-> "bool", b |-> b]

JNum(n) == [t |-> "num", n |-> n]

JStr(s) == [t |-> "str", s |-> s]

JArr(a) == [t |-> "arr", a |-> a]

JObj(o) == [t |-> "obj", o |-> o]

Member(k, v) == [k |-> k, v |-> v]

\* The empty dict of _read_body (line 163).
EmptyDict == JObj(<<>>)

DictKeys(d) == [i \in 1..Len(d.o) |-> d.o[i].k]

DictHas(d, k) == \E i \in 1..Len(d.o) : d.o[i].k = k

DictGet(d, k) == d.o[CHOOSE i \in 1..Len(d.o) : d.o[i].k = k].v

\* d[k] = v: an existing key keeps its position, a new key goes last.
DictSet(d, k, v) ==
    IF DictHas(d, k)
    THEN JObj([i \in 1..Len(d.o) |-> IF d.o[i].k = k THEN Member(k, v) ELSE d.o[i]])
    ELSE JObj(Append(d.o, Member(k, v)))

(***************************************************************************)
(* json.loads                                                              *)
(***************************************************************************)

JsonWs == {" ", "\n"}

\* First position at or after i that holds no whitespace (Len(txt)+1 at the end).
SkipWs(txt, i) ==
    CHOOSE j \in i..(Len(txt) + 1) :
        /\ \A k \in i..(j - 1) : txt[k] \in JsonWs
        /\ (j = Len(txt) + 1 \/ txt[j] \notin JsonWs)

ParseFail == [ok |-> FALSE, v |-> JNull, i |-> 0]

ParseOk(v, i) == [ok |-> TRUE, v |-> v, i |-> i]

RECURSIVE ParseStringBody(_, _, _)
\* The characters of a string literal after its opening quote, up to the
\* closing quote; escapes \n \" \\ are decoded, a raw line break is an error.
ParseStringBody(txt, i, acc) ==
    IF i > Len(txt) THEN ParseFail
    ELSE IF txt[i] = "\"" THEN ParseOk(JStr(acc), i + 1)
    ELSE IF txt[i] = "\n" THEN ParseFail
    ELSE IF txt[i] = "\\" THEN
        IF i + 1 > Len(txt) THEN ParseFail
        ELSE IF txt[i + 1] = "n" THEN ParseStringBody(txt, i + 2, Append(acc, "\n"))
        ELSE IF txt[i + 1] \in {"\"", "\\"}
             THEN ParseStringBody(txt, i + 2, Append(acc, txt[i + 1]))
        ELSE ParseFail
    ELSE ParseStringBody(txt, i + 1, Append(acc, txt[i]))

RECURSIVE ParseDigits(_, _, _)
\* The value of the digit run starting at i, with acc the value so far.
ParseDigits(txt, i, acc) ==
    IF i <= Len(txt) /\ txt[i] \in DigitChars
    THEN ParseDigits(txt, i + 1, acc * 10 + DigitVal(txt[i]))
    ELSE ParseOk(JNum(acc), i)

\* An integer literal: -?(0|[1-9][0-9]*).
ParseNumber(txt, i) ==
    LET neg == txt[i] = "-"
        j   == IF neg THEN i + 1 ELSE i
    IN  IF j > Len(txt) \/ txt[j] \notin DigitChars THEN ParseFail
        ELSE IF txt[j] = "0" THEN ParseOk(JNum(0), j + 1)
        ELSE LET r == ParseDigits(txt, j, 0)
             IN  ParseOk(JNum(IF neg THEN 0 - r.v.n ELSE r.v.n), r.i)

RECURSIVE ParseValue(_, _)
RECURSIVE ParseElements(_, _, _)
RECURSIVE ParseMembers(_, _, _)

\* The elements of an array after "[" or ",": value (ws , ws value)* ws "]".
ParseElements(txt, i, acc) ==
    LET r == ParseValue(txt, i)
    IN  IF ~r.ok THEN ParseFail
        ELSE LET j == SkipWs(txt, r.i)
                 a == Append(acc, r.v)
             IN  IF j > Len(txt) THEN ParseFail
                 ELSE IF txt[j] = "]" THEN ParseOk(JArr(a), j + 1)
                 ELSE IF txt[j] = "," THEN ParseElements(txt, SkipWs(txt, j + 1), a)
                 ELSE ParseFail

\* The members of an object after "{" or ",": a key, ":", a value, then "," or "}".
\* A repeated key overwrites the earlier value, as a Python dict does.
ParseMembers(txt, i, acc) ==
    IF i > Len(txt) \/ txt[i] # "\"" THEN ParseFail
    ELSE LET k == ParseStringBody(txt, i + 1, <<>>)
         IN  IF ~k.ok THEN ParseFail
             ELSE LET c == SkipWs(txt, k.i)
                  IN  IF c > Len(txt) \/ txt[c] # ":" THEN ParseFail
                      ELSE LET r == ParseValue(txt, SkipWs(txt, c + 1))
                           IN  IF ~r.ok THEN ParseFail
                               ELSE LET j == SkipWs(txt, r.i)
                                        d == DictSet(acc, k.v.s, r.v)
                                    IN  IF j > Len(txt) THEN ParseFail
                                        ELSE IF txt[j] = "}" THEN ParseOk(d, j + 1)
                                        ELSE IF txt[j] = ","
                                             THEN ParseMembers(txt, SkipWs(txt, j + 1), d)
                                        ELSE ParseFail

\* One JSON value starting at position i (no leading whitespace).
ParseValue(txt, i) ==
    IF i > Len(txt) THEN ParseFail
    ELSE IF txt[i] = "{" THEN
        LET j == SkipWs(txt, i + 1)
        IN  IF j <= Len(txt) /\ txt[j] = "}" THEN ParseOk(EmptyDict, j + 1)
            ELSE ParseMembers(txt, j, EmptyDict)
    ELSE IF txt[i] = "[" THEN
        LET j == SkipWs(txt, i + 1)
        IN  IF j <= Len(txt) /\ txt[j] = "]" THEN ParseOk(JArr(<<>>), j + 1)
            ELSE ParseElements(txt, j, <<>>)
    ELSE IF txt[i] = "\"" THEN ParseStringBody(txt, i + 1, <<>>)
    ELSE IF HasPrefixAt(txt, i, Chars("null")) THEN ParseOk(JNull, i + 4)
    ELSE IF HasPrefixAt(txt, i, Chars("true")) THEN ParseOk(JBool(TRUE), i + 4)
    ELSE IF HasPrefixAt(txt, i, Chars("false")) THEN ParseOk(JBool(FALSE), i + 5)
    ELSE IF txt[i] = "-" \/ txt[i] \in DigitChars THEN ParseNumber(txt, i)
    ELSE ParseFail

\* json.loads(txt) / json.load(f): ok is FALSE where Python raises
\* json.JSONDecodeError (no value, a malformed value, or extra data).
JsonLoads(txt) ==
    LET r == ParseValue(txt, SkipWs(txt, 1))
    IN  IF r.ok /\ SkipWs(txt, r.i) = Len(txt) + 1 THEN r ELSE ParseFail

(***************************************************************************)
(* json.dumps(obj, indent=2)                                               *)
(***************************************************************************)

RECURSIVE EscapeText(_)
\* The body of a JSON string literal: " \ and line break are escaped.
EscapeText(s) ==
    IF s = <<>> THEN <<>>
    ELSE (IF Head(s) = "\n" THEN <<"\\", "n">>
          ELSE IF Head(s) \in {"\"", "\\"} THEN <<"\\", Head(s)>>
          ELSE <<Head(s)>>) \o EscapeText(Tail(s))

Quoted(s) == <<"\"">> \o EscapeText(s) \o <<"\"">>

\* A line break followed by two spaces per nesting level.
NewlineIndent(level) == <<"\n">> \o [i \in 1..(2 * level) |-> " "]

RECURSIVE JsonDumps(_, _)
RECURSIVE DumpItems(_, _, _)

\* Items i.. of a non-empty container, each on its own indented line.
DumpItems(v, i, level) ==
    LET n    == IF v.t = "arr" THEN Len(v.a) ELSE Len(v.o)
        item == IF v.t = "arr" THEN JsonDumps(v.a[i], level)
                ELSE Quoted(v.o[i].k) \o <<":", " ">> \o JsonDumps(v.o[i].v, level)
    IN  NewlineIndent(level) \o item \o
        (IF i < n THEN <<",">> \o DumpItems(v, i + 1, level) ELSE <<>>)

\* json.dumps(v, indent=2) for a value nested at the given level.
JsonDumps(v, level) ==
    CASE v.t = "null" -> Chars("null")
      [] v.t = "bool" -> IF v.b THEN Chars("true") ELSE Chars("false")
      [] v.t = "num"  -> IntText(v.n)
      [] v.t = "str"  -> Quoted(v.s)
      [] v.t = "arr"  -> IF v.a = <<>> THEN Chars("[]")
                         ELSE <<"[">> \o DumpItems(v, 1, level + 1)
                              \o NewlineIndent(level) \o <<"]">>
      [] v.t = "obj"  -> IF v.o = <<>> THEN Chars("{}")
                         ELSE <<"{">> \o DumpItems(v, 1, level + 1)
                              \o NewlineIndent(level) \o <<"}">>

(***************************************************************************)
(* Python operations on parsed values that the handlers rely on            *)
(***************************************************************************)

\* sub occurs in s as a contiguous run (Python's str.__contains__).
IsSubstring(sub, s) == \E i \in 1..(Len(s) - Len(sub) + 1) : HasPrefixAt(s, i, sub)

\* Whether `k in v` raises TypeError: the value is not a container.
InRaises(v) == v.t \in {"null", "bool", "num"}

\* `k in v` for a string k: key of a dict, element of a list, substring of a str.
PyIn(k, v) ==
    CASE v.t = "obj" -> DictHas(v, k)
      [] v.t = "arr" -> \E i \in 1..Len(v.a) : v.a[i] = JStr(k)
      [] v.t = "str" -> IsSubstring(k, v.s)
      [] OTHER       -> FALSE

\* `body is not None` in place of the truth value.
PyIsNotNone(v) == v.t # "null"

\* bool(v): empty containers, the empty string, 0, False and None are falsy.
PyTruthy(v) ==
    CASE v.t = "obj"  -> v.o # <<>>
      [] v.t = "arr"  -> v.a # <<>>
      [] v.t = "str"  -> v.s # <<>>
      [] v.t = "num"  -> v.n # 0
      [] v.t = "bool" -> v.b
      [] v.t = "null" -> FALSE

RECURSIVE PyRepr(_)
RECURSIVE PyReprItems(_, _)

\* repr() of items i.. of a list or dict, separated by ", ".
PyReprItems(v, i) ==
    LET n    == IF v.t = "arr" THEN Len(v.a) ELSE Len(v.o)
        item == IF v.t = "arr" THEN PyRepr(v.a[i])
                ELSE <<"'">> \o v.o[i].k \o <<"'", ":", " ">> \o PyRepr(v.o[i].v)
    IN  IF i > n THEN <<>>
        ELSE item \o (IF i < n THEN <<",", " ">> ELSE <<>>) \o PyReprItems(v, i + 1)

\* repr(v): as str(v), but a string is shown in quotes.
PyRepr(v) ==
    CASE v.t = "null" -> Chars("None")
      [] v.t = "bool" -> IF v.b THEN Chars("True") ELSE Chars("False")
      [] v.t = "num"  -> IntText(v.n)
      [] v.t = "str"  -> <<"'">> \o v.s \o <<"'">>
      [] v.t = "arr"  -> <<"[">> \o PyReprItems(v, 1) \o <<"]">>
      [] v.t = "obj"  -> <<"{">> \o PyReprItems(v, 1) \o <<"}">>

\* str(value) of line 127: a str is itself, anything else its repr.
PyStr(v) == IF v.t = "str" THEN v.s ELSE PyRepr(v)

(***************************************************************************)
(* update_settings: the allow-list and the two regular expressions         *)
(***************************************************************************)

RALPH_VALIDATION_STRATEGY == Chars("RALPH_VALIDATION_STRATEGY")

RALPH_COMPACTION_INTERVAL == Chars("RALPH_COMPACTION_INTERVAL")

RALPH_COMPACTION_THRESHOLD_BYTES == Chars("RALPH_COMPACTION_THRESHOLD_BYTES")

RALPH_DEFAULT_MAX_TURNS == Chars("RALPH_DEFAULT_MAX_TURNS")

RALPH_MIN_DELAY_SECONDS == Chars("RALPH_MIN_DELAY_SECONDS")

RALPH_MODE == Chars("RALPH_MODE")

ALLOWED_SETTINGS ==
    {RALPH_VALIDATION_STRATEGY, RALPH_COMPACTION_INTERVAL,
     RALPH_COMPACTION_THRESHOLD_BYTES, RALPH_DEFAULT_MAX_TURNS,
     RALPH_MIN_DELAY_SECONDS, RALPH_MODE}

\* A check of the name's prefix in place of the allow-list.
AllowedByPrefix(key) == HasPrefixAt(key, 1, Chars("RALPH_"))

\* `key not in ALLOWED_SETTINGS` is false (line 124).
Allowed(key) == key \in ALLOWED_SETTINGS

\* The character class [a-zA-Z0-9_\-].
SafeChars ==
    LET cs == Chars("abcdefghijklmnopqrstuvwxyzABCDEFGHIJKLMNOPQRSTUVWXYZ0123456789_-")
    IN  {cs[i] : i \in 1..Len(cs)}

\* re.match(r'^[a-zA-Z0-9_\-]+$', s): one or more class characters from the
\* start, then `$`, which Python matches at the end of the string and also
\* just before a line break that ends the string.
SafeValueMatch(s) ==
    \E n \in 1..Len(s) :
        /\ \A k \in 1..n : s[k] \in SafeChars
        /\ \/ n = Len(s)
           \/ n = Len(s) - 1 /\ s[Len(s)] = "\n"

\* `^` under re.MULTILINE: the start of the text or just after a line break.
LineStartAt(content, i) == i = 1 \/ content[i - 1] = "\n"

\* The pattern ^(KEY=).*$ matches at position i.
KeyLineAt(content, i, key) ==
    LineStartAt(content, i) /\ HasPrefixAt(content, i, key \o <<"=">>)

\* pattern.search(content) of line 132.
PatternSearch(content, key) == \E i \in 1..Len(content) : KeyLineAt(content, i, key)

\* Where `.*$` stops: the next line break at or after i, or the end of the text.
LineEndFrom(content, i) ==
    CHOOSE j \in i..(Len(content) + 1) :
        /\ \A k \in i..(j - 1) : content[k] # "\n"
        /\ (j = Len(content) + 1 \/ content[j] = "\n")

\* The replacement template \g<1>"{safe_value}" of line 133.
Replacement(key, value) == key \o <<"=", "\"">> \o value \o <<"\"">>

RECURSIVE PatternSubFrom(_, _, _, _)
\* pattern.sub(...) from position i on: every line that starts with KEY= is
\* replaced up to its end by KEY="value"; everything else is copied.
PatternSubFrom(content, i, key, value) ==
    IF i > Len(content) THEN <<>>
    ELSE IF KeyLineAt(content, i, key)
         THEN Replacement(key, value)
              \o PatternSubFrom(content, LineEndFrom(content, i), key, value)
         ELSE <<content[i]>> \o PatternSubFrom(content, i + 1, key, value)

PatternSub(content, key, value) == PatternSubFrom(content, 1, key, value)

RECURSIVE UpdateLoop(_, _, _, _)
\* The for loop of lines 123-134 from member i of the payload on, with the
\* content and the updated list so far.
UpdateLoop(settings, i, content, updated) ==
    IF i > Len(settings.o) THEN [content |-> content, updated |-> updated]
    ELSE LET key        == settings.o[i].k
             safe_value == PyStr(settings.o[i].v)
         IN  IF ~Allowed(key)
             THEN UpdateLoop(settings, i + 1, content, updated)
             ELSE IF ~SafeValueMatch(safe_value)
             THEN UpdateLoop(settings, i + 1, content, updated)
             ELSE IF PatternSearch(content, key)
             THEN UpdateLoop(settings, i + 1, PatternSub(content, key, safe_value),
                             Append(updated, key))
             ELSE UpdateLoop(settings, i + 1, content, updated)

(***************************************************************************)
(* Files                                                                   *)
(***************************************************************************)

CONTROL_FILE == "control/commands.json"

CONFIG_FILE == "config/ralph.conf"

Targets == {CONTROL_FILE, CONFIG_FILE}

\* filepath.parent
Parent(filepath) == IF filepath = CONTROL_FILE THEN "control" ELSE "config"

\* Writing in place: the "temporary" name is the target itself.
TempPathInPlace(filepath) == filepath

\* The name tempfile.mkstemp(dir=filepath.parent, suffix=".tmp") returns: a
\* fresh file in the target's directory.
TempPath(filepath) ==
    IF filepath = CONTROL_FILE THEN "control/tmp.tmp" ELSE "config/tmp.tmp"

Paths == Targets \cup {TempPath(f) : f \in Targets}

NoFile == [exists |-> FALSE, data |-> <<>>]

File(data) == [exists |-> TRUE, data |-> data]

\* os.replace(tmp_path, filepath): the target's name now holds the temporary
\* file, whose own name is gone, in one step.
Replaced(files, tmp_path, filepath) ==
    [[files EXCEPT ![tmp_path] = NoFile] EXCEPT ![filepath] = files[tmp_path]]

\* An error path that leaves the temporary file where it is.
UnlinkSkipped(files, tmp_path) == files

\* os.unlink(tmp_path) of the except clause (line 66).
Unlinked(files, tmp_path) == [files EXCEPT ![tmp_path] = NoFile]

\* How much of the data the temporary file may hold after the next flush:
\* about half of it, or all of it.
ChunkEnds(data, written) ==
    {n \in {(Len(data) + 1) \div 2, Len(data)} : n > written}

(***************************************************************************)
(* Exceptions and responses                                                *)
(***************************************************************************)

NoExc == [type |-> "", msg |-> <<>>]

Exc(type, msg) == [type |-> type, msg |-> Chars(msg)]

Raised(e) == e.type # ""

NoResp == [status |-> 0, data |-> JNull]

\* _send_json(status, data)
Response(status, data) == [status |-> status, data |-> data]

ErrorData(msg) == JObj(<<Member(Chars("error"), JStr(msg))>>)

\* The except clauses of _handle_command and _handle_settings (lines 192-195,
\* 205-208): json.JSONDecodeError -> 400 "Invalid JSON", anything else -> 500
\* with str(e).
ExceptResponse(e) ==
    IF e.type = "JSONDecodeError"
    THEN Response(400, ErrorData(Chars("Invalid JSON")))
    ELSE Response(500, ErrorData(e.msg))

\* _read_body (lines 160-165): Content-Length 0 gives {}, otherwise the body
\* is parsed.
ReadBody(raw) ==
    IF Len(raw) = 0 THEN [exc |-> NoExc, v |-> EmptyDict]
    ELSE LET r == JsonLoads(raw)
         IN  IF r.ok THEN [exc |-> NoExc, v |-> r.v]
             ELSE [exc |-> Exc("JSONDecodeError", "Expecting value"), v |-> JNull]

(***************************************************************************)
(* enqueue_command up to its call of atomic_write (lines 79-93)            *)
(***************************************************************************)

PENDING == Chars("pending")

COMMAND == Chars("command")

\* The new command goes in front of the pending list.
PrependCommand(pending, command_obj) == <<command_obj>> \o pending

\* control["pending"].append(command_obj) (line 91)
AppendCommand(pending, command_obj) == Append(pending, command_obj)

\* Lines 82-91 for a queue file in state `file`: the exception raised, or the
\* document to be written.
EnqueueDocument(file, command_obj) ==
    LET loaded  == JsonLoads(file.data)
        control == IF file.exists THEN loaded.v
                   ELSE JObj(<<Member(PENDING, JArr(<<>>))>>)
        withKey == IF DictHas(control, PENDING) THEN control
                   ELSE DictSet(control, PENDING, JArr(<<>>))
        pending == DictGet(withKey, PENDING)
    IN  IF file.exists /\ ~loaded.ok
        THEN [exc |-> Exc("JSONDecodeError", "Expecting value"), control |-> JNull]
        ELSE IF InRaises(control)
        THEN [exc |-> Exc("TypeError", "argument is not iterable"), control |-> JNull]
        ELSE IF control.t # "obj"
        THEN [exc |-> Exc("TypeError", "indices must be integers"), control |-> JNull]
        ELSE IF pending.t # "arr"
        THEN [exc |-> Exc("AttributeError", "object has no attribute 'append'"),
              control |-> JNull]
        ELSE [exc     |-> NoExc,
              control |-> DictSet(withKey, PENDING,
                                  JArr(AppendCommand(pending.a, command_obj)))]

\* json.dumps(control, indent=2) + "\n" (line 93)
QueueText(control) == JsonDumps(control, 0) \o <<"\n">>

(***************************************************************************)
(* update_settings up to its call of atomic_write (lines 106-139)          *)
(***************************************************************************)

UPDATED == Chars("updated")

\* Lines 106-139 for a settings file in state `file`: the exception raised,
\* or the dict returned and the content to write (write is `if updated:`).
SettingsOutcome(file, settings) ==
    LET r == UpdateLoop(settings, 1, file.data, <<>>)
    IN  IF ~file.exists
        THEN [exc |-> NoExc, write |-> FALSE, content |-> <<>>,
              result |-> ErrorData(Chars("ralph.conf not found"))]
        ELSE IF settings.t # "obj"
        THEN [exc |-> Exc("AttributeError", "object has no attribute 'items'"),
              write |-> FALSE, content |-> <<>>, result |-> JNull]
        ELSE [exc |-> NoExc, write |-> r.updated # <<>>, content |-> r.content,
              result |-> JObj(<<Member(UPDATED,
                                       JArr([i \in 1..Len(r.updated) |-> JStr(r.updated[i])]))>>)]

(***************************************************************************)
(* The server: one request at a time, each handled step by step            *)
(***************************************************************************)

\* Requests handled in one run.
MaxRequests == 2

\* Drains of the queue by its consumer in one run.
MaxDrains == 2

VARIABLES
    fs,      \* path -> file: the queue file, the settings file, temporary files
    dirs,    \* the directories that exist
    pc,      \* where the server is: "accept", "do_POST", or a line of atomic_write
    req,     \* the request being handled (the last one, between requests)
    call,    \* the handler's frame across atomic_write: handler, argument, result
    aw,      \* atomic_write's frame: target, data, the target as it was on entry
    resp,    \* the response sent for req (NoResp while it is being handled)
    obs,     \* what a concurrent reader of aw.target saw during the call, and when
    start,   \* the files and directories when the server started
    before,  \* the files and directories when req arrived
    acked,   \* the commands answered 200, in order
    nreq,    \* requests received so far
    sent,    \* the number of responses sent so far
    consumer, \* the process that drains the queue file: position, snapshot, drained
    assigned \* key -> the value last reported in `updated` for it (NotAssigned if none)

vars == <<fs, dirs, pc, req, call, aw, resp, obs, start, before, acked, nreq, sent,
         consumer, assigned>>

NoCall == [handler |-> "", arg |-> JNull, result |-> JNull]

NoWrite == [target |-> "", data |-> <<>>, old |-> NoFile, state |-> "none", exc |-> NoExc]

NoObs == [seen |-> FALSE, at |-> "", file |-> NoFile]

\* No value has been reported in `updated` for a key.
NotAssigned == <<"none">>

\* The record of reported values after a 200 whose `updated` lists keys of
\* the request `settings`: each listed key now stands for str(value).
Reported(old, settings, result) ==
    LET keys == {DictGet(result, UPDATED).a[i].s : i \in 1..Len(DictGet(result, UPDATED).a)}
    IN  [key \in ALLOWED_SETTINGS |->
            IF key \in keys THEN PyStr(DictGet(settings, key)) ELSE old[key]]

\* A queue document: an object whose `pending` is a list.
IsQueue(v) == v.t = "obj" /\ DictHas(v, PENDING) /\ DictGet(v, PENDING).t = "arr"

\* The consumer between two drains: nothing read, nothing drained yet.
Idle == [pc |-> "idle", snapshot |-> JNull, drained |-> <<>>, drains |-> 0]

\* The lines of atomic_write, and the return to the handler.
WriteSteps == {"mkdir", "mkstemp", "write", "replace", "unlink", "return"}

Disk == [fs |-> fs, dirs |-> dirs]

\* The handler answers and the server goes back to accepting.
Answer(r) ==
    /\ resp' = r
    /\ sent' = sent + 1
    /\ pc' = "accept"
    /\ obs' = NoObs

\* The handler calls atomic_write(target, data).
CallAtomicWrite(target, data, frame) ==
    /\ aw' = [target |-> target, data |-> data, old |-> fs[target],
              state |-> "running", exc |-> NoExc]
    /\ call' = frame
    /\ pc' = "mkdir"
    /\ UNCHANGED <<resp, obs, sent>>

\* serve_forever hands the next POST request to the handler.
Receive(paths, bodies) ==
    /\ pc = "accept"
    /\ nreq < MaxRequests
    /\ \E p \in paths, b \in bodies :
        req' = [path |-> p, body |-> b]
    /\ pc' = "do_POST"
    /\ nreq' = nreq + 1
    /\ resp' = NoResp
    /\ before' = Disk
    /\ aw' = NoWrite
    /\ call' = NoCall
    /\ obs' = NoObs
    /\ UNCHANGED <<fs, dirs, start, acked, sent, consumer, assigned>>

\* _handle_command working from the queue file as it was when the server
\* started, as a handler would that had read it before another one wrote.
HandleCommandStale ==
    /\ pc = "do_POST"
    /\ req.path = "/api/command"
    /\ LET body == ReadBody(req.body)
           doc  == EnqueueDocument(start.fs[CONTROL_FILE], body.v)
       IN  IF Raised(body.exc)
           THEN Answer(ExceptResponse(body.exc)) /\ UNCHANGED <<aw, call, dirs>>
           ELSE IF InRaises(body.v)
           THEN /\ Answer(ExceptResponse(Exc("TypeError", "argument is not iterable")))
                /\ UNCHANGED <<aw, call, dirs>>
           ELSE IF ~PyIn(COMMAND, body.v)
           THEN /\ Answer(Response(400, ErrorData(Chars("Missing 'command' field"))))
                /\ UNCHANGED <<aw, call, dirs>>
           ELSE /\ dirs' = dirs \cup {Parent(CONTROL_FILE)}
                /\ IF Raised(doc.exc)
                   THEN Answer(ExceptResponse(doc.exc)) /\ UNCHANGED <<aw, call>>
                   ELSE CallAtomicWrite(CONTROL_FILE, QueueText(doc.control),
                                        [handler |-> "command", arg |-> body.v,
                                         result |-> doc.control])
    /\ UNCHANGED <<fs, req, start, before, acked, nreq, consumer, assigned>>

\* _handle_command (lines 184-195) up to its response or to atomic_write.
HandleCommand ==
    /\ pc = "do_POST"
    /\ req.path = "/api/command"
    /\ LET body == ReadBody(req.body)
           doc  == EnqueueDocument(fs[CONTROL_FILE], body.v)
       IN  IF Raised(body.exc)
           THEN Answer(ExceptResponse(body.exc)) /\ UNCHANGED <<aw, call, dirs>>
           ELSE IF InRaises(body.v)
           THEN /\ Answer(ExceptResponse(Exc("TypeError", "argument is not iterable")))
                /\ UNCHANGED <<aw, call, dirs>>
           ELSE IF ~PyIn(COMMAND, body.v)
           THEN /\ Answer(Response(400, ErrorData(Chars("Missing 'command' field"))))
                /\ UNCHANGED <<aw, call, dirs>>
           ELSE /\ dirs' = dirs \cup {Parent(CONTROL_FILE)}
                /\ IF Raised(doc.exc)
                   THEN Answer(ExceptResponse(doc.exc)) /\ UNCHANGED <<aw, call>>
                   ELSE CallAtomicWrite(CONTROL_FILE, QueueText(doc.control),
                                        [handler |-> "command", arg |-> body.v,
                                         result |-> doc.control])
    /\ UNCHANGED <<fs, req, start, before, acked, nreq, consumer, assigned>>

\* _handle_settings (lines 197-208) up to its response or to atomic_write.
HandleSettings ==
    /\ pc = "do_POST"
    /\ req.path = "/api/settings"
    /\ LET body == ReadBody(req.body)
           out  == SettingsOutcome(fs[CONFIG_FILE], body.v)
           ok   == JObj(<<Member(Chars("ok"), JBool(TRUE))>> \o out.result.o)
       IN  IF Raised(body.exc)
           THEN Answer(ExceptResponse(body.exc)) /\ UNCHANGED <<aw, call>>
           ELSE IF ~PyTruthy(body.v)
           THEN /\ Answer(Response(400, ErrorData(Chars("Empty body"))))
                /\ UNCHANGED <<aw, call>>
           ELSE IF Raised(out.exc)
           THEN Answer(ExceptResponse(out.exc)) /\ UNCHANGED <<aw, call>>
           ELSE IF ~out.write
           THEN Answer(Response(200, ok)) /\ UNCHANGED <<aw, call>>
           ELSE CallAtomicWrite(CONFIG_FILE, out.content,
                                [handler |-> "settings", arg |-> body.v,
                                 result |-> ok])
    /\ UNCHANGED <<fs, dirs, req, start, before, acked, nreq, consumer, assigned>>

\* do_POST's else branch (line 158): send_error(404).
HandleNotFound ==
    /\ pc = "do_POST"
    /\ req.path \notin {"/api/command", "/api/settings"}
    /\ Answer(Response(404, JNull))
    /\ UNCHANGED <<fs, dirs, req, call, aw, start, before, acked, nreq, consumer, assigned>>

\* atomic_write raises e and no except clause of the handler answers.
RaiseUncaught(e) ==
    /\ aw' = [aw EXCEPT !.state = "failed", !.exc = e]
    /\ pc' = "accept"
    /\ obs' = NoObs
    /\ UNCHANGED <<resp, sent>>

\* atomic_write raises e: the handler's except clause answers.
RaiseFromWrite(e) ==
    /\ aw' = [aw EXCEPT !.state = "failed", !.exc = e]
    /\ Answer(ExceptResponse(e))

\* The response after atomic_write returned: line 191, or line 204.
SuccessResponse(frame) ==
    IF frame.handler = "command"
    THEN Response(200, JObj(<<Member(Chars("ok"), JBool(TRUE)),
                             Member(Chars("pending_count"),
                                    JNum(Len(DictGet(frame.result, PENDING).a)))>>))
    ELSE Response(200, frame.result)

\* filepath.parent.mkdir(parents=True, exist_ok=True) (line 59)
Mkdir ==
    /\ pc = "mkdir"
    /\ \E ok \in BOOLEAN :
        IF ok
        THEN /\ dirs' = dirs \cup {Parent(aw.target)}
             /\ pc' = "mkstemp"
             /\ UNCHANGED <<aw, resp, obs, sent>>
        ELSE /\ RaiseFromWrite(Exc("OSError", "mkdir failed"))
             /\ UNCHANGED dirs
    /\ UNCHANGED <<fs, req, call, start, before, acked, nreq, consumer, assigned>>

\* tempfile.mkstemp (line 60): an empty temporary file; a failure here is
\* outside the try block.
Mkstemp ==
    /\ pc = "mkstemp"
    /\ \E ok \in BOOLEAN :
        IF ok
        THEN /\ fs' = [fs EXCEPT ![TempPath(aw.target)] = File(<<>>)]
             /\ pc' = "write"
             /\ UNCHANGED <<aw, resp, obs, sent>>
        ELSE /\ RaiseFromWrite(Exc("OSError", "mkstemp failed"))
             /\ UNCHANGED fs
    /\ UNCHANGED <<dirs, req, call, start, before, acked, nreq, consumer, assigned>>

\* f.write(data) and the close of the with block (lines 62-63): the data
\* reaches the temporary file a chunk at a time; any chunk may fail.
Write ==
    /\ pc = "write"
    /\ \E ok \in BOOLEAN :
        IF ok
        THEN \E n \in ChunkEnds(aw.data, Len(fs[TempPath(aw.target)].data)) :
                /\ fs' = [fs EXCEPT ![TempPath(aw.target)] = File(SubSeq(aw.data, 1, n))]
                /\ pc' = IF n = Len(aw.data) THEN "replace" ELSE "write"
                /\ UNCHANGED aw
        ELSE /\ aw' = [aw EXCEPT !.exc = Exc("OSError", "write failed")]
             /\ pc' = "unlink"
             /\ UNCHANGED fs
    /\ UNCHANGED <<dirs, req, call, resp, obs, start, before, acked, nreq, sent, consumer, assigned>>

\* os.replace(tmp_path, filepath) (line 64)
Replace ==
    /\ pc = "replace"
    /\ \E ok \in BOOLEAN :
        IF ok
        THEN /\ fs' = Replaced(fs, TempPath(aw.target), aw.target)
             /\ aw' = [aw EXCEPT !.state = "done"]
             /\ pc' = "return"
        ELSE /\ aw' = [aw EXCEPT !.exc = Exc("OSError", "replace failed")]
             /\ pc' = "unlink"
             /\ UNCHANGED fs
    /\ UNCHANGED <<dirs, req, call, resp, obs, start, before, acked, nreq, sent, consumer, assigned>>

\* atomic_write has returned: the handler sends its 200 (line 191, line 204).
Return ==
    /\ pc = "return"
    /\ Answer(SuccessResponse(call))
    /\ acked' = IF call.handler = "command" THEN Append(acked, call.arg) ELSE acked
    /\ assigned' = IF call.handler = "settings" THEN Reported(assigned, call.arg, call.result)
                   ELSE assigned
    /\ UNCHANGED <<fs, dirs, req, call, aw, start, before, nreq, consumer>>

\* except Exception: os.unlink(tmp_path); raise (lines 65-67)
Unlink ==
    /\ pc = "unlink"
    /\ fs' = Unlinked(fs, TempPath(aw.target))
    /\ RaiseFromWrite(aw.exc)
    /\ UNCHANGED <<dirs, req, call, start, before, acked, nreq, consumer, assigned>>

\* Another process reads the file atomic_write is replacing.
Read ==
    /\ pc \in WriteSteps
    /\ obs' = [seen |-> TRUE, at |-> pc, file |-> fs[aw.target]]
    /\ UNCHANGED <<fs, dirs, pc, req, call, aw, resp, start, before, acked, nreq, sent,
                   consumer, assigned>>

\* The consumer of the queue reads the whole queue file.
ConsumerRead ==
    /\ consumer.pc = "idle"
    /\ consumer.drains < MaxDrains
    /\ fs[CONTROL_FILE].exists
    /\ JsonLoads(fs[CONTROL_FILE].data).ok
    /\ IsQueue(JsonLoads(fs[CONTROL_FILE].data).v)
    /\ consumer' = [consumer EXCEPT !.pc = "read",
                                    !.snapshot = JsonLoads(fs[CONTROL_FILE].data).v]
    /\ UNCHANGED <<fs, dirs, pc, req, call, aw, resp, obs, start, before, acked, nreq, sent,
                   assigned>>

\* The consumer has processed what it read and replaces the queue file, in
\* one step, by the document it read with an empty `pending` list.
ConsumerClear ==
    /\ consumer.pc = "read"
    /\ fs' = [fs EXCEPT ![CONTROL_FILE] =
                  File(QueueText(DictSet(consumer.snapshot, PENDING, JArr(<<>>))))]
    /\ consumer' = [pc       |-> "idle",
                    snapshot |-> JNull,
                    drained  |-> consumer.drained \o DictGet(consumer.snapshot, PENDING).a,
                    drains   |-> consumer.drains + 1]
    /\ UNCHANGED <<dirs, pc, req, call, aw, resp, obs, start, before, acked, nreq, sent,
                   assigned>>

AtomicWriteStep == Mkdir \/ Mkstemp \/ Write \/ Replace \/ Unlink \/ Return

(***************************************************************************)
(* Initial files and request bodies                                        *)
(***************************************************************************)

\* Queue files: absent; empty list; entries and other keys around `pending`;
\* no `pending` key; a truncated document; an empty file; a document that is
\* not an object; a `pending` that is not a list.
QueueFiles ==
    {NoFile} \cup
    {File(Chars(s)) : s \in
        {"{\"pending\": []}",
         "{\"v\": 1, \"pending\": [{\"command\": \"resume\"}], \"w\": null}",
         "{\"v\": 1}",
         "{\"pending\": [",
         "",
         "[\"pending\"]",
         "{\"pending\": \"x\"}"}}

\* Settings files: absent; lines of allow-listed and other keys; a last line
\* without line break, an indented line, a comment; a key on two lines; no
\* allow-listed key; an empty file.
ConfFiles ==
    {NoFile} \cup
    {File(Chars(s)) : s \in
        {"RALPH_MODE=\"auto\"\nRALPH_MODEL=opus\nRALPH_MIN_DELAY_SECONDS=5\n",
         "# conf\n RALPH_MODE=x\nRALPH_MODEL=opus\nRALPH_MODE=a=b",
         "RALPH_MODE=a\nUNKNOWN_KEY=1\nRALPH_MODE=b\n",
         "UNKNOWN_KEY=1\n",
         ""}}

CommandBodies ==
    {Chars(s) : s \in
        {"{\"command\": \"pause\"}",
         "{\"command\": \"inject-note\", \"note\": \"a\\nb\"}",
         "{}",
         "",
         "{\"cmd\": \"pause\"}",
         "[\"command\"]",
         "\"a command\"",
         "[]",
         "5",
         "{bad"}}

SettingsBodies ==
    {Chars(s) : s \in
        {"{\"RALPH_MODE\": \"debug\", \"UNKNOWN_KEY\": \"x\"}",
         "{\"RALPH_MIN_DELAY_SECONDS\": 30, \"RALPH_MODE\": \"fast\"}",
         "{\"RALPH_MODE\": \"a b\", \"RALPH_MIN_DELAY_SECONDS\": \"7\"}",
         "{\"RALPH_MODEL\": \"x\", \"RALPH_DEFAULT_MAX_TURNS\": \"9\"}",
         "{\"RALPH_MODE\": \"debug\\n\"}",
         "{\"RALPH_MODE\": \"x\\\";y\"}",
         "{\"RALPH_MODE\": \"\"}",
         "{\"RALPH_MODE\": null}",
         "{}",
         "",
         "[]",
         "0",
         "[1]",
         "{bad"}}

Dirs == {Parent(f) : f \in Targets}

\* The server starts accepting, with the two files drawn from the given sets.
InitWith(queues, confs) ==
    /\ \E q \in queues, c \in confs :
        fs = [p \in Paths |-> IF p = CONTROL_FILE THEN q
                              ELSE IF p = CONFIG_FILE THEN c ELSE NoFile]
    /\ dirs \in {d \in SUBSET Dirs : \A f \in Targets : fs[f].exists => Parent(f) \in d}
    /\ pc = "accept"
    /\ req = [path |-> "", body |-> <<>>]
    /\ call = NoCall
    /\ aw = NoWrite
    /\ resp = NoResp
    /\ obs = NoObs
    /\ start = Disk
    /\ before = Disk
    /\ acked = <<>>
    /\ nreq = 0
    /\ sent = 0
    /\ consumer = Idle
    /\ assigned = [key \in ALLOWED_SETTINGS |-> NotAssigned]

(***************************************************************************)
(* SpecQueue: POST /api/command against every queue file                   *)
(***************************************************************************)

InitQueue == InitWith(QueueFiles, {NoFile})

ReceiveCommand == Receive({"/api/command"}, CommandBodies)

NextQueue == ReceiveCommand \/ HandleCommand \/ AtomicWriteStep \/ Read

SpecQueue == InitQueue /\ [][NextQueue]_vars

(***************************************************************************)
(* SpecConf: POST /api/settings against every settings file                *)
(***************************************************************************)

InitConf == InitWith({NoFile}, ConfFiles)

ReceiveSettings == Receive({"/api/settings"}, SettingsBodies)

NextConf == ReceiveSettings \/ HandleSettings \/ AtomicWriteStep \/ Read

SpecConf == InitConf /\ [][NextConf]_vars

(***************************************************************************)
(* Spec: every POST path, against a few files of each kind                 *)
(***************************************************************************)

PostPaths == {"/api/command", "/api/settings", "/api/status"}

SomeQueueFiles ==
    {NoFile, File(Chars("{\"pending\": [{\"command\": \"resume\"}]}"))}

SomeConfFiles ==
    {NoFile, File(Chars("RALPH_MODE=\"auto\"\nRALPH_MODEL=opus\n"))}

SomeBodies ==
    {Chars(s) : s \in
        {"{\"command\": \"pause\"}",
         "{\"RALPH_MODE\": \"debug\", \"command\": \"skip-task\"}",
         "",
         "{bad"}}

Init == InitWith(SomeQueueFiles, SomeConfFiles)

ReceivePost == Receive(PostPaths, SomeBodies)

Next ==
    \/ ReceivePost
    \/ HandleCommand
    \/ HandleSettings
    \/ HandleNotFound
    \/ AtomicWriteStep
    \/ Read

Spec == Init /\ [][Next]_vars

\* The steps of the handler thread.
HandlerStep == HandleCommand \/ HandleSettings \/ HandleNotFound \/ AtomicWriteStep

\* The handler thread runs: a request that has been received is worked on
\* until the handler returns (weak fairness of HandlerStep, which is enabled
\* exactly while pc # "accept"). Clients and readers are under no obligation.
SpecLive == Spec /\ (<>[](pc # "accept") => []<><<HandlerStep>>_vars)

(***************************************************************************)
(* SpecDrain: POST /api/command while the consumer drains the queue        *)
(***************************************************************************)

DrainBodies ==
    {Chars(s) : s \in
        {"{\"command\": \"pause\"}", "{\"command\": \"skip-task\"}", "{}", "{bad"}}

InitDrain == InitWith(SomeQueueFiles, {NoFile})

ReceiveDrain == Receive({"/api/command"}, DrainBodies)

NextDrain ==
    \/ ReceiveDrain
    \/ HandleCommand
    \/ AtomicWriteStep
    \/ ConsumerRead
    \/ ConsumerClear

SpecDrain == InitDrain /\ [][NextDrain]_vars

(***************************************************************************)
(* SpecSerial: commands and settings from several clients, in any order    *)
(***************************************************************************)

SerialConfFiles ==
    {NoFile,
     File(Chars("RALPH_MODE=\"auto\"\nRALPH_MODEL=opus\nRALPH_MIN_DELAY_SECONDS=5\n"))}

SerialBodies ==
    {Chars(s) : s \in
        {"{\"command\": \"pause\"}",
         "{\"RALPH_MODE\": \"debug\", \"command\": \"skip-task\"}",
         "{\"RALPH_MIN_DELAY_SECONDS\": 30, \"RALPH_MODE\": \"fast\"}",
         "{\"RALPH_MIN_DELAY_SECONDS\": \"7\", \"UNKNOWN_KEY\": \"x\"}",
         "{\"RALPH_MODE\": \"debug\\n\"}",
         "{bad"}}

InitSerial == InitWith(SomeQueueFiles, SerialConfFiles)

\* The requests the clients have submitted reach the handler one by one, in
\* whatever order the listening socket hands them over.
ReceiveSerial == Receive(PostPaths, SerialBodies)

NextSerial ==
    \/ ReceiveSerial
    \/ HandleCommand
    \/ HandleSettings
    \/ HandleNotFound
    \/ AtomicWriteStep

SpecSerial == InitSerial /\ [][NextSerial]_vars

(***************************************************************************)
(* Notions the properties are stated in                                    *)
(***************************************************************************)

RECURSIVE SplitLines(_)
\* The lines of a text: the runs between line breaks ("a\n" has the lines
\* "a" and "").
SplitLines(text) ==
    IF \A i \in 1..Len(text) : text[i] # "\n" THEN <<text>>
    ELSE LET j == CHOOSE i \in 1..Len(text) :
                      text[i] = "\n" /\ \A k \in 1..(i - 1) : text[k] # "\n"
         IN  <<SubSeq(text, 1, j - 1)>> \o SplitLines(SubSeq(text, j + 1, Len(text)))

\* A line of the form KEY=...: it holds an "=".
HasKey(line) == \E i \in 1..Len(line) : line[i] = "="

\* The text before the first "=" of a line that has one.
KeyOf(line) ==
    SubSeq(line, 1, (CHOOSE i \in 1..Len(line) :
                        line[i] = "=" /\ \A k \in 1..(i - 1) : line[k] # "=") - 1)

\* Some line of the text starts with KEY=.
HasKeyLine(text, key) ==
    \E i \in 1..Len(SplitLines(text)) : HasPrefixAt(SplitLines(text)[i], 1, key \o <<"=">>)

\* The lines whose key is not allow-listed, in order.
OtherKeyLines(text) ==
    LET Other(line) == HasKey(line) /\ KeyOf(line) \notin ALLOWED_SETTINGS
    IN  SelectSeq(SplitLines(text), Other)

\* The lines that have no key at all (comments, blank lines), in order.
KeylessLines(text) ==
    LET Keyless(line) == ~HasKey(line)
    IN  SelectSeq(SplitLines(text), Keyless)

RECURSIVE IsSubsequence(_, _)
\* s can be obtained from t by dropping elements.
IsSubsequence(s, t) ==
    IF s = <<>> THEN TRUE
    ELSE IF t = <<>> THEN FALSE
    ELSE IF Head(s) = Head(t) THEN IsSubsequence(Tail(s), Tail(t))
    ELSE IsSubsequence(s, Tail(t))

\* One or more characters, all of [A-Za-z0-9_-].
FullySafe(s) == s # <<>> /\ \A i \in 1..Len(s) : s[i] \in SafeChars

\* The values Python treats as false.
FalsyValues == {EmptyDict, JArr(<<>>), JStr(<<>>), JNum(0), JBool(FALSE), JNull}

\* The request body as the handler understands it: {} for an empty body.
BodyParses == Len(req.body) = 0 \/ JsonLoads(req.body).ok

BodyValue == IF Len(req.body) = 0 THEN EmptyDict ELSE JsonLoads(req.body).v

\* A JSON object with a `command` field.
IsCommandObject(v) == v.t = "obj" /\ DictHas(v, COMMAND)

\* The request req has been answered.
Answered(path) == pc = "accept" /\ nreq > 0 /\ req.path = path

\* The pending list of a queue file: empty for an absent file or key.
PendingOf(file) ==
    IF ~file.exists THEN <<>>
    ELSE LET d == JsonLoads(file.data).v
         IN  IF DictHas(d, PENDING) THEN DictGet(d, PENDING).a ELSE <<>>

\* The members of a document other than `pending`, in order.
OtherMembers(d) ==
    LET NotPending(m) == m.k # PENDING
    IN  SelectSeq(d.o, NotPending)

(***************************************************************************)
(* C1: a reader of the target racing atomic_write sees the target as it    *)
(* was when the call began or the complete new data, never a part of it;   *)
(* until the replace the target itself is untouched, so partial data is    *)
(* only ever under the temporary name.                                     *)
(***************************************************************************)
C1_ReaderSeesOldOrNew ==
    /\ obs.seen => obs.file \in {aw.old, File(aw.data)}
    /\ pc \in {"mkdir", "mkstemp", "write", "replace", "unlink"} => fs[aw.target] = aw.old

\* A reader read the old file while the temporary file held part of the data.
C1_ReadWhilePartlyWritten ==
    /\ obs.seen /\ obs.at = "write" /\ obs.file = aw.old /\ aw.old.exists
    /\ pc = "write"
    /\ Len(fs[TempPath(aw.target)].data) > 0
    /\ Len(fs[TempPath(aw.target)].data) < Len(aw.data)

(***************************************************************************)
(* C6: when atomic_write fails (mkdir, mkstemp, write or replace), the     *)
(* error reaches the caller (the handler answers 500 with its text), the   *)
(* target is as it was on entry and no temporary file is left.             *)
(***************************************************************************)
C6_FailedWriteLeavesTarget ==
    aw.state = "failed" =>
        /\ Raised(aw.exc)
        /\ resp = Response(500, ErrorData(aw.exc.msg))
        /\ fs[aw.target] = aw.old
        /\ \A f \in Targets : ~fs[TempPath(f)].exists

\* The rename failed after the data was written in full.
C6_ReplaceFailed ==
    /\ aw.state = "failed"
    /\ aw.exc = Exc("OSError", "replace failed")
    /\ aw.old.exists

(***************************************************************************)
(* C2: after successful enqueues C1..Cn and no other writer, the queue     *)
(* file is a document whose pending list is the initial list followed by   *)
(* C1..Cn in order, and whose other members are those of the initial       *)
(* document, in order.                                                     *)
(***************************************************************************)
C2_PendingIsInitialPlusEnqueued ==
    (pc = "accept" /\ acked # <<>>) =>
        LET old == start.fs[CONTROL_FILE]
            cur == JsonLoads(fs[CONTROL_FILE].data)
        IN  /\ fs[CONTROL_FILE].exists
            /\ cur.ok
            /\ cur.v.t = "obj"
            /\ DictHas(cur.v, PENDING)
            /\ DictGet(cur.v, PENDING) = JArr(PendingOf(old) \o acked)
            /\ OtherMembers(cur.v) =
                   IF old.exists THEN OtherMembers(JsonLoads(old.data).v) ELSE <<>>
            /\ DictKeys(cur.v) =
                   IF old.exists /\ DictHas(JsonLoads(old.data).v, PENDING)
                   THEN DictKeys(JsonLoads(old.data).v)
                   ELSE (IF old.exists THEN DictKeys(JsonLoads(old.data).v) ELSE <<>>)
                        \o <<PENDING>>

\* The same command was enqueued twice behind an entry that was there before.
C2_SameCommandTwice ==
    /\ pc = "accept"
    /\ Len(acked) = 2
    /\ acked[1] = acked[2]
    /\ Len(PendingOf(start.fs[CONTROL_FILE])) = 1
    /\ OtherMembers(JsonLoads(start.fs[CONTROL_FILE].data).v) # <<>>

(***************************************************************************)
(* C3: with an unparseable queue file, a POST /api/command whose body is   *)
(* a JSON object with a `command` field is answered 500, and the queue     *)
(* file is unchanged.                                                      *)
(***************************************************************************)
C3_CorruptQueueIs500 ==
    ( /\ Answered("/api/command")
      /\ before.fs[CONTROL_FILE].exists
      /\ ~JsonLoads(before.fs[CONTROL_FILE].data).ok
      /\ JsonLoads(req.body).ok
      /\ IsCommandObject(JsonLoads(req.body).v) ) =>
        /\ resp.status = 500
        /\ fs[CONTROL_FILE] = before.fs[CONTROL_FILE]

(***************************************************************************)
(* C9: a POST /api/command whose body parses (an empty body as {}) but is  *)
(* not a JSON object with a `command` field is answered 400 for the        *)
(* missing field and leaves the queue file alone; so every entry appended  *)
(* is a JSON object with a `command` field.                                *)
(***************************************************************************)
C9_OnlyCommandObjectsAppended ==
    /\ ( Answered("/api/command") /\ BodyParses /\ ~IsCommandObject(BodyValue) ) =>
        /\ resp = Response(400, ErrorData(Chars("Missing 'command' field")))
        /\ fs = before.fs
    /\ \A i \in 1..Len(acked) : IsCommandObject(acked[i])

(***************************************************************************)
(* C4: over any sequence of settings requests, the lines whose key is not  *)
(* allow-listed stay exactly as they were (none changed, added or          *)
(* removed), no line without a key is changed or removed, no allow-listed  *)
(* key gets a line it did not have, and an absent file stays absent.       *)
(***************************************************************************)
C4_OnlyAllowListedLinesRewritten ==
    LET old == start.fs[CONFIG_FILE]
        new == fs[CONFIG_FILE]
    IN  /\ new.exists = old.exists
        /\ OtherKeyLines(new.data) = OtherKeyLines(old.data)
        /\ IsSubsequence(KeylessLines(old.data), KeylessLines(new.data))
        /\ \A k \in ALLOWED_SETTINGS : HasKeyLine(new.data, k) => HasKeyLine(old.data, k)

\* A payload named a key outside the allow-list that has a line in the file,
\* and the request rewrote the file.
C4_UnlistedKeyProposed ==
    /\ Answered("/api/settings")
    /\ aw.state = "done"
    /\ \E i \in 1..Len(BodyValue.o) :
        /\ BodyValue.o[i].k \notin ALLOWED_SETTINGS
        /\ HasKeyLine(before.fs[CONFIG_FILE].data, BodyValue.o[i].k)

(***************************************************************************)
(* C5: a key whose value's text is empty or holds a character outside      *)
(* [A-Za-z0-9_-] is not in `updated`, and a payload of such values only    *)
(* leaves the settings file unchanged.                                     *)
(***************************************************************************)
C5_UnsafeValueRejected ==
    ( /\ Answered("/api/settings")
      /\ resp.status = 200
      /\ DictHas(resp.data, UPDATED) ) =>
        /\ \A i \in 1..Len(BodyValue.o) :
            ~FullySafe(PyStr(BodyValue.o[i].v)) =>
                JStr(BodyValue.o[i].k) \notin
                    {DictGet(resp.data, UPDATED).a[j] :
                        j \in 1..Len(DictGet(resp.data, UPDATED).a)}
        /\ (\A i \in 1..Len(BodyValue.o) : ~FullySafe(PyStr(BodyValue.o[i].v)))
               => fs[CONFIG_FILE] = before.fs[CONFIG_FILE]

(***************************************************************************)
(* C7: when every key of the payload is not allow-listed, or has an        *)
(* invalid value, or has no KEY= line, `updated` is empty, atomic_write is *)
(* not called and the settings file is unchanged.                          *)
(***************************************************************************)
C7_NothingUpdatedNothingWritten ==
    ( /\ Answered("/api/settings")
      /\ before.fs[CONFIG_FILE].exists
      /\ BodyParses /\ BodyValue.t = "obj" /\ BodyValue.o # <<>>
      /\ \A i \in 1..Len(BodyValue.o) :
            \/ BodyValue.o[i].k \notin ALLOWED_SETTINGS
            \/ ~FullySafe(PyStr(BodyValue.o[i].v))
            \/ ~HasKeyLine(before.fs[CONFIG_FILE].data, BodyValue.o[i].k) ) =>
        /\ resp = Response(200, JObj(<<Member(Chars("ok"), JBool(TRUE)),
                                       Member(UPDATED, JArr(<<>>))>>))
        /\ aw.state = "none"
        /\ fs = before.fs

(***************************************************************************)
(* C8: for a payload applied to an existing settings file, `updated` is    *)
(* the payload's keys, in order, that are allow-listed, whose value        *)
(* matches [A-Za-z0-9_-]+ and that have a KEY= line; each such line then   *)
(* reads KEY="VALUE" and every other line is unchanged.                    *)
(***************************************************************************)
C8_UpdatedIsExactlyTheRewrittenKeys ==
    ( /\ Answered("/api/settings")
      /\ before.fs[CONFIG_FILE].exists
      /\ BodyParses /\ BodyValue.t = "obj" /\ BodyValue.o # <<>>
      /\ aw.state # "failed" ) =>
        LET old == SplitLines(before.fs[CONFIG_FILE].data)
            new == SplitLines(fs[CONFIG_FILE].data)
            Applies(m) == /\ m.k \in ALLOWED_SETTINGS
                          /\ FullySafe(PyStr(m.v))
                          /\ HasKeyLine(before.fs[CONFIG_FILE].data, m.k)
            applied == SelectSeq(BodyValue.o, Applies)
            Hits(m, line) == HasPrefixAt(line, 1, m.k \o <<"=">>)
        IN  /\ resp = Response(200,
                        JObj(<<Member(Chars("ok"), JBool(TRUE)),
                               Member(UPDATED,
                                      JArr([i \in 1..Len(applied) |-> JStr(applied[i].k)]))>>))
            /\ Len(new) = Len(old)
            /\ \A n \in 1..Len(old) :
                IF \E i \in 1..Len(applied) : Hits(applied[i], old[n])
                THEN LET m == applied[CHOOSE i \in 1..Len(applied) : Hits(applied[i], old[n])]
                     IN  new[n] = m.k \o <<"=", "\"">> \o PyStr(m.v) \o <<"\"">>
                ELSE new[n] = old[n]

(***************************************************************************)
(* C10: with no settings file, a POST /api/settings whose body is a        *)
(* non-empty JSON object is answered 200 {ok: true, error: "ralph.conf not *)
(* found"} with no `updated` field, and nothing on disk changes; an empty  *)
(* or falsy body is answered 400 "Empty body" and nothing is written.      *)
(***************************************************************************)
C10_MissingConfIsSoftError ==
    /\ ( /\ Answered("/api/settings")
         /\ ~before.fs[CONFIG_FILE].exists
         /\ BodyParses /\ BodyValue.t = "obj" /\ BodyValue.o # <<>> ) =>
            /\ resp = Response(200, JObj(<<Member(Chars("ok"), JBool(TRUE)),
                                           Member(Chars("error"),
                                                  JStr(Chars("ralph.conf not found")))>>))
            /\ ~DictHas(resp.data, UPDATED)
            /\ Disk = before
            /\ aw.state = "none"
    /\ ( /\ Answered("/api/settings")
         /\ BodyParses /\ BodyValue \in FalsyValues ) =>
            /\ resp = Response(400, ErrorData(Chars("Empty body")))
            /\ Disk = before
            /\ aw.state = "none"

\* A non-empty object was posted while the settings file was missing.
C10_PostedWithoutConf ==
    /\ Answered("/api/settings")
    /\ ~before.fs[CONFIG_FILE].exists
    /\ BodyParses /\ BodyValue.t = "obj" /\ BodyValue.o # <<>>
    /\ resp.status = 200

(***************************************************************************)
(* C11: no request is fatal. Every POST request received is answered, by    *)
(* exactly one response, with status 200, 400, 404 or 500, whatever the    *)
(* path, the body, the files and the I/O failures; a failed write is not   *)
(* tried again; and with the response the server is accepting again, ready *)
(* to receive the next request.                                            *)
(***************************************************************************)
C11_EveryRequestAnsweredOnce ==
    /\ [](pc = "accept" =>
            /\ sent = nreq
            /\ nreq > 0 => resp # NoResp /\ resp.status \in {200, 400, 404, 500}
            /\ nreq < MaxRequests => ENABLED ReceivePost)
    /\ [](pc # "accept" => sent = nreq - 1 /\ resp = NoResp)
    /\ [](aw.state = "failed" => pc = "accept" /\ resp.status = 500)
    /\ [][sent' # sent => /\ sent' = sent + 1
                          /\ pc # "accept" /\ pc' = "accept"
                          /\ resp = NoResp /\ resp' # NoResp]_vars
    /\ (pc # "accept" ~> pc = "accept")

\* The second request ran into an I/O failure, was answered 500, and the
\* server is accepting again.
C11_FailureAnsweredAndAccepting ==
    /\ pc = "accept" /\ nreq = 2 /\ sent = 2
    /\ aw.state = "failed"
    /\ resp.status = 500

\* How many times x occurs in the sequence s.
Count(x, s) == Cardinality({i \in 1..Len(s) : s[i] = x})

(***************************************************************************)
(* C12: with a consumer that reads the queue file and later replaces it by *)
(* an empty `pending` list, concurrently with enqueue_command, every       *)
(* command is handed to the consumer exactly once. Whenever no request and *)
(* no drain is in progress, each command occurs in what the consumer has   *)
(* drained plus what is still pending as often as it occurs in the initial *)
(* queue plus the commands acknowledged with 200: none lost, none twice.   *)
(***************************************************************************)
C12_AckedCommandsDrainedExactlyOnce ==
    (pc = "accept" /\ consumer.pc = "idle") =>
        LET handed == consumer.drained \o PendingOf(fs[CONTROL_FILE])
            given  == PendingOf(start.fs[CONTROL_FILE]) \o acked
        IN  \A c \in {handed[i] : i \in 1..Len(handed)} \cup
                      {given[i] : i \in 1..Len(given)} :
                Count(c, handed) = Count(c, given)

\* Every line of the text that starts with KEY= reads KEY="value", and there
\* is such a line.
CarriesValue(text, key, value) ==
    LET line == key \o <<"=", "\"">> \o value \o <<"\"">>
    IN  /\ PatternSearch(text, key)
        /\ \A i \in 1..Len(text) :
              KeyLineAt(text, i, key) =>
                  /\ HasPrefixAt(text, i, line)
                  /\ (i + Len(line) = Len(text) + 1 \/ text[i + Len(line)] = "\n")

\* The keys the write in progress has just rewritten (its 200 is not sent yet).
BeingReported ==
    IF pc = "return" /\ call.handler = "settings"
    THEN {DictGet(call.result, UPDATED).a[i].s : i \in 1..Len(DictGet(call.result, UPDATED).a)}
    ELSE {}

(***************************************************************************)
(* C13: requests are handled one at a time, so no update is lost. When a   *)
(* handler starts, no write is in progress and no temporary file exists;   *)
(* the queue file's pending list is the initial one followed by every      *)
(* command answered 200, in order; pending_count in a 200 is the length of *)
(* pending on disk when the response is sent; and every key reported in    *)
(* `updated` carries in the settings file the value last reported for it.  *)
(***************************************************************************)
C13_NoUpdateLost ==
    /\ pc = "do_POST" =>
          /\ aw = NoWrite
          /\ \A f \in Targets : ~fs[TempPath(f)].exists
    /\ PendingOf(fs[CONTROL_FILE]) =
          PendingOf(start.fs[CONTROL_FILE]) \o acked \o
          (IF pc = "return" /\ call.handler = "command" THEN <<call.arg>> ELSE <<>>)
    /\ (Answered("/api/command") /\ resp.status = 200) =>
          DictGet(resp.data, Chars("pending_count")) =
              JNum(Len(PendingOf(fs[CONTROL_FILE])))
    /\ \A key \in ALLOWED_SETTINGS \ BeingReported :
          assigned[key] # NotAssigned =>
              CarriesValue(fs[CONFIG_FILE].data, key, assigned[key])

\* Two requests have been answered: one set RALPH_MODE, the other one set
\* RALPH_MIN_DELAY_SECONDS, and the file carries both values.
C13_TwoKeysFromTwoRequests ==
    /\ pc = "accept" /\ nreq = 2 /\ sent = 2
    /\ assigned[RALPH_MODE] = Chars("debug")
    /\ assigned[RALPH_MIN_DELAY_SECONDS] = Chars("7")

============================================================================
